---- MODULE Spec2Model ----
(***************************************************************************)
(* EV3 quadrature counter driver (the pbdrv_counter functions), modelled   *)
(* from src/lib/pbio/platform/test/pbio_os_config.h.                       *)
(*                                                                         *)
(* Two contexts share the descriptor table: the GPIO bank interrupt        *)
(* handlers (banks 5 and 6), which write count, and the foreground, which  *)
(* calls get_dev / get_angle / get_abs_angle.  The handler and get_angle   *)
(* are split into steps at the places where the other context can run.     *)
(***************************************************************************)
EXTENDS Integers, Sequences, FiniteSets, TLC

\* ------------------------------------------------------------------ bounds

\* edges the hardware detects in one run
MaxEdges == 2
\* ids tried with get_dev are 0..MaxId (the table has 4 entries)
MaxId == 5

\* the angle conversion is applied to the counts within MaxCount of zero,
\* of INT32_MIN and of INT32_MAX
MaxCount == 400

\* the sine is applied to the degrees within MaxDeg of zero, of INT32_MIN
\* and of INT32_MAX
MaxDeg == 400

\* ------------------------------------------------------- descriptor table

\* counters[]: PBDRV_GPIO_EV3_PIN(mux_id, mux_msb, mux_lsb, gpio_bank_id, pin)
\* keeps the GPIO bank and the pin of each line; index i of C is i + 1 here.
counters ==
    << [int_bank |-> 5, int_pin |-> 11, dir_bank |-> 0, dir_pin |-> 4,
        det_bank |-> 5, det_pin |-> 4,  adc_channel |-> 1],
       [int_bank |-> 5, int_pin |-> 8,  dir_bank |-> 2, dir_pin |-> 9,
        det_bank |-> 2, det_pin |-> 5,  adc_channel |-> 0],
       [int_bank |-> 5, int_pin |-> 13, dir_bank |-> 3, dir_pin |-> 14,
        det_bank |-> 3, det_pin |-> 8,  adc_channel |-> 13],
       [int_bank |-> 6, int_pin |-> 9,  dir_bank |-> 2, dir_pin |-> 8,
        det_bank |-> 5, det_pin |-> 15, adc_channel |-> 14] >>

\* PBIO_ARRAY_SIZE(counters)
ARRAY_SIZE == Len(counters)

\* valid descriptor indices
Dev == 0 .. (ARRAY_SIZE - 1)

\* the two banks whose handlers exist: irq5 and irq6
Banks == {5, 6}

\* mux->gpio_bank_id of descriptor i's interrupt pin
IntBank(i) == counters[i + 1].int_bank

\* the mask computed from the pin index alone
MaskBit_pin(i) == counters[i + 1].int_pin % 32

\* bit index of the handler's mask, 1 << ((bank * 16 + pin) % 32)
MaskBit(i) == (counters[i + 1].int_bank * 16 + counters[i + 1].int_pin) % 32

\* GPIO_INTSTAT(bank_id / 2): the register pair index of a bank
IntStatReg(b) == b \div 2

Regs == {IntStatReg(b) : b \in Banks}

\* ------------------------------------------------------------ arithmetic

INT32_MAX == 2147483647
INT32_MIN == -INT32_MAX - 1

\* c + 1 and c - 1 in a 32-bit signed field (two's complement wrap)
Inc32(c) == IF c = INT32_MAX THEN INT32_MIN ELSE c + 1
Dec32(c) == IF c = INT32_MIN THEN INT32_MAX ELSE c - 1

\* C integer division, truncating toward zero (b > 0): the floored
\* quotient, plus one when the dividend is negative and not a multiple
CDiv(a, b) == IF a >= 0 \/ a % b = 0 THEN a \div b ELSE (a \div b) + 1

\* C remainder, sign of the dividend (b > 0)
CRem(a, b) == a - b * CDiv(a, b)

Abs(x) == IF x < 0 THEN -x ELSE x

\* ------------------------------------------------------------- classifier

ADC_EV3_NONE == 2014
ADC_EV3_MEDIUM_LOW == 290
ADC_EV3_MEDIUM_HIGH == 3451
ADC_EV3_LARGE_LOW == 120
ADC_EV3_LARGE_HIGH == 3666

ADC_EV3_THRESHOLD_LOW == (ADC_EV3_MEDIUM_LOW + ADC_EV3_LARGE_LOW) \div 2
ADC_EV3_THRESHOLD_HIGH == (ADC_EV3_MEDIUM_HIGH + ADC_EV3_LARGE_HIGH) \div 2

\* tolerance passed to pbio_int_math_is_close by the classifier
ADC_EV3_TOLERANCE == 750

\* largest value of the classifier's uint16_t parameter
UINT16_MAX == 65535

LEGO_DEVICE_TYPE_ID_NONE == "NONE"
LEGO_DEVICE_TYPE_ID_EV3_MEDIUM_MOTOR == "EV3_MEDIUM_MOTOR"
LEGO_DEVICE_TYPE_ID_EV3_LARGE_MOTOR == "EV3_LARGE_MOTOR"

\* the generic comparison helper: absolute difference within the tolerance
pbio_int_math_is_close(value, target, tolerance) ==
    Abs(value - target) <= tolerance

\* the classifier with >= at both midpoints
pbdrv_counter_ev3_get_type_ge(adc) ==
    IF pbio_int_math_is_close(adc, ADC_EV3_NONE, ADC_EV3_TOLERANCE)
    THEN LEGO_DEVICE_TYPE_ID_NONE
    ELSE IF adc < ADC_EV3_NONE
         THEN (IF adc >= ADC_EV3_THRESHOLD_LOW
               THEN LEGO_DEVICE_TYPE_ID_EV3_MEDIUM_MOTOR
               ELSE LEGO_DEVICE_TYPE_ID_EV3_LARGE_MOTOR)
         ELSE (IF adc >= ADC_EV3_THRESHOLD_HIGH
               THEN LEGO_DEVICE_TYPE_ID_EV3_LARGE_MOTOR
               ELSE LEGO_DEVICE_TYPE_ID_EV3_MEDIUM_MOTOR)

\* the classifier with the absent check against the low threshold value
pbdrv_counter_ev3_get_type_band(adc) ==
    IF pbio_int_math_is_close(adc, ADC_EV3_NONE, ADC_EV3_THRESHOLD_LOW)
    THEN LEGO_DEVICE_TYPE_ID_NONE
    ELSE IF adc < ADC_EV3_NONE
         THEN (IF adc > ADC_EV3_THRESHOLD_LOW
               THEN LEGO_DEVICE_TYPE_ID_EV3_MEDIUM_MOTOR
               ELSE LEGO_DEVICE_TYPE_ID_EV3_LARGE_MOTOR)
         ELSE (IF adc > ADC_EV3_THRESHOLD_HIGH
               THEN LEGO_DEVICE_TYPE_ID_EV3_LARGE_MOTOR
               ELSE LEGO_DEVICE_TYPE_ID_EV3_MEDIUM_MOTOR)

\* pbdrv_counter_ev3_get_type, lines 116-131
pbdrv_counter_ev3_get_type(adc) ==
    IF pbio_int_math_is_close(adc, ADC_EV3_NONE, ADC_EV3_TOLERANCE)
    THEN LEGO_DEVICE_TYPE_ID_NONE
    ELSE IF adc < ADC_EV3_NONE
         THEN (IF adc > ADC_EV3_THRESHOLD_LOW
               THEN LEGO_DEVICE_TYPE_ID_EV3_MEDIUM_MOTOR
               ELSE LEGO_DEVICE_TYPE_ID_EV3_LARGE_MOTOR)
         ELSE (IF adc > ADC_EV3_THRESHOLD_HIGH
               THEN LEGO_DEVICE_TYPE_ID_EV3_LARGE_MOTOR
               ELSE LEGO_DEVICE_TYPE_ID_EV3_MEDIUM_MOTOR)

\* ------------------------------------------------------------------ state

VARIABLES
    \* the descriptors' count fields, by index
    count,
    \* GPIO_INTSTAT registers: pending-edge bit indices, by register pair
    intstat,
    \* GPIO_BINTEN: banks whose interrupt delivery is enabled
    binten,
    \* GPIO_SET_RIS_TRIG / GPIO_SET_FAL_TRIG: enabled bit indices, by pair
    risTrig, falTrig,
    \* AINTC: system interrupts raised, enabled, and with a handler, by bank
    sysPending, sysEnabled, registered,
    \* one handler invocation per bank: position, status snapshot, loop index
    hpc, status, idx,
    \* foreground call in progress or last returned
    fpc, op, id, dev, ret,
    \* get_angle's locals and outputs; written = the outputs stored so far
    adc, adc_err, type_id, millidegrees, rotations, handle, written,
    \* history: start value of count, edges sampled with differing/equal levels
    count0, nDiff, nSame,
    \* history of the current get_angle call: values read at lines 146 and
    \* 147, the values count held during the call, helper calls made
    rdM, rdR, held, adcCalls, typeCalls,
    \* edges detected so far in the run
    edges,
    \* classifier harness: the sample, the result, whether it has run
    t_adc, t_type, t_done,
    \* pbdrv_counter_init: position, loop index i
    ipc, ii,
    \* AINTC channel of each bank's system interrupt (-1: not set)
    channel,
    \* pins switched to GPIO function, configured as inputs, and
    \* configured as outputs driven low; a pin is <<index, line>>
    gpioFunc, pinInput, pinOutLow,
    \* history: <<d, n>> after get_angle returned NO_DEV for descriptor d
    \* when d had handled n edges; << >> once another call replaces it
    lastNoDev,
    \* angle conversion harness: the count, the outputs, whether it has run
    a_count, a_rotations, a_millidegrees, a_done,
    \* sine harness: the angle, sin_deg and cos_deg of it, whether it has run
    s_x, s_sin, s_cos, s_done

hwVars == <<count, intstat, binten, risTrig, falTrig, sysPending, sysEnabled,
            registered>>
irqVars == <<hpc, status, idx>>
fgVars == <<fpc, op, id, dev, ret, adc, adc_err, type_id, millidegrees,
            rotations, handle, written>>
histVars == <<count0, nDiff, nSame, rdM, rdR, held, adcCalls, typeCalls>>
runVars == <<edges>>
typeVars == <<t_adc, t_type, t_done>>
initVars == <<ipc, ii, channel, gpioFunc, pinInput, pinOutLow>>
fnVars == <<a_count, a_rotations, a_millidegrees, a_done, s_x, s_sin, s_cos,
            s_done>>
restVars == <<initVars, fnVars>>
vars == <<hwVars, irqVars, fgVars, histVars, runVars, typeVars, restVars,
          lastNoDev>>

\* ------------------------------------------------- hardware configuration

\* values pbdrv_counter_init ORs into the GPIO controller's registers
\* 0x00000060: bank interrupt enable for banks 5 and 6
BINTEN_BANK56 == 96
\* 0x29000000: rising and falling trigger bits of bank 5 (register pair 2)
TRIG_BANK5 == 687865856
\* 0x00000200: rising and falling trigger bits of bank 6 (register pair 3)
TRIG_BANK6 == 512

\* the bit indices set in a register value (values below 2^31)
BitsOf(n) == {k \in 0..30 : (n \div (2 ^ k)) % 2 = 1}

\* trigger masks by register pair, as pbdrv_counter_init leaves them
TrigAfterInit == [r \in Regs |-> IF r = 2 THEN BitsOf(TRIG_BANK5)
                                          ELSE BitsOf(TRIG_BANK6)]

\* ------------------------------------------------------------ inputs

\* The count table a run starts from: the driver has been running, port 0
\* is at its constructed value 0 and the other ports have accumulated
\* edges (one short of a full rotation, and two rotations and 5 degrees
\* in each direction).
StartTables ==
    { [i \in Dev |-> CASE i = 0 -> 0 [] i = 1 -> 359
                       [] i = 2 -> 725 [] OTHER -> -725] }

\* samples the analog subsystem delivers to get_angle
AdcSamples == {ADC_EV3_NONE, ADC_EV3_MEDIUM_HIGH}

\* errors pbdrv_adc_get_ch can report
AdcErrors == {"PBIO_ERROR_FAILED", "PBIO_ERROR_AGAIN"}

\* --------------------------------------------------------------- Init

\* the classifier harness at rest
TypeIdle == t_adc = 0 /\ t_type = LEGO_DEVICE_TYPE_ID_NONE /\ t_done = FALSE

\* the angle conversion and sine harnesses at rest
AngleIdle ==
    a_count = 0 /\ a_rotations = 0 /\ a_millidegrees = 0 /\ a_done = FALSE
SinIdle == s_x = 0 /\ s_sin = 0 /\ s_cos = 0 /\ s_done = FALSE

\* the three lines of descriptor i: gpio_int, gpio_dir, gpio_det
IntPin(i) == <<i, "int">>
DirPin(i) == <<i, "dir">>
DetPin(i) == <<i, "det">>

\* the pins one iteration of pbdrv_counter_init's loop passes to
\* pbdrv_gpio_alt_gpio (lines 195, 196 and 199)
InitAltGpioPins(i) == {DirPin(i), DirPin(i), DetPin(i)}

\* the pins it passes to pbdrv_gpio_input (lines 197 and 198)
InitInputPins(i) == {IntPin(i), DirPin(i)}

\* the pin it passes to pbdrv_gpio_out_low (line 200)
InitOutLowPins(i) == {DetPin(i)}

\* the GPIO helpers, by what they configure: pbdrv_gpio_alt_gpio selects
\* the pin's GPIO function, pbdrv_gpio_input makes the pin a digital input
\* (and returns its level), pbdrv_gpio_out_low makes it an output driven low
pbdrv_gpio_alt_gpio(func, pins) == func \cup pins
pbdrv_gpio_input(inputs, pins) == inputs \cup pins
pbdrv_gpio_out_low(outs, pins) == outs \cup pins

\* no handler running, no foreground call made, empty history
Quiet ==
    /\ intstat = [r \in Regs |-> {}]
    /\ sysPending = {}
    /\ hpc = [b \in Banks |-> "idle"]
    /\ status = [b \in Banks |-> {}]
    /\ idx = [b \in Banks |-> 0]
    /\ fpc = "idle" /\ op = "none" /\ id = 0 /\ dev = 0 /\ ret = "none"
    /\ adc = 0 /\ adc_err = "none" /\ type_id = LEGO_DEVICE_TYPE_ID_NONE
    /\ millidegrees = 0 /\ rotations = 0 /\ handle = 0 /\ written = {}
    /\ nDiff = [i \in Dev |-> 0] /\ nSame = [i \in Dev |-> 0]
    /\ rdM = 0 /\ rdR = 0 /\ held = {} /\ adcCalls = 0 /\ typeCalls = 0
    /\ lastNoDev = << >>
    /\ edges = 0

\* the registers and pins as pbdrv_counter_init leaves them (lines 193-218)
Configured ==
    /\ binten = BitsOf(BINTEN_BANK56)
    /\ risTrig = TrigAfterInit /\ falTrig = TrigAfterInit
    /\ sysEnabled = Banks /\ registered = Banks
    /\ channel = [b \in Banks |-> 0]
    /\ gpioFunc = UNION {InitAltGpioPins(i) : i \in Dev}
    /\ pinInput = UNION {InitInputPins(i) : i \in Dev}
    /\ pinOutLow = UNION {InitOutLowPins(i) : i \in Dev}
    /\ ipc = "done" /\ ii = ARRAY_SIZE

\* the driver running: initialised, count at one of the start tables
Init ==
    /\ count0 \in StartTables
    /\ count = count0
    /\ Configured /\ Quiet /\ TypeIdle /\ AngleIdle /\ SinIdle

\* ------------------------------------------------- hardware: edge events

\* An edge on descriptor i's interrupt pin.  The GPIO controller latches
\* it in INTSTAT when the edge's trigger bit is set, and raises the bank's
\* system interrupt when the bank is enabled in BINTEN.
EdgeEvent(i) ==
    /\ edges < MaxEdges
    /\ \E trig \in {risTrig, falTrig} : MaskBit(i) \in trig[IntStatReg(IntBank(i))]
    /\ intstat' = [intstat EXCEPT ![IntStatReg(IntBank(i))] = @ \cup {MaskBit(i)}]
    /\ sysPending' = IF IntBank(i) \in binten THEN sysPending \cup {IntBank(i)}
                                                ELSE sysPending
    /\ edges' = edges + 1
    /\ UNCHANGED <<count, binten, risTrig, falTrig, sysEnabled, registered>>
    /\ UNCHANGED <<irqVars, fgVars, histVars, typeVars, restVars, lastNoDev>>

\* ------------------------------------------------------ interrupt handler

\* count after one qualifying edge with == in place of ^
QuadratureUpdate_eq(c, level_int, level_dir) ==
    IF level_int = level_dir THEN Inc32(c) ELSE Dec32(c)

\* count moved by two per edge
QuadratureUpdate_twice(c, level_int, level_dir) ==
    IF level_int # level_dir THEN Inc32(Inc32(c)) ELSE Dec32(Dec32(c))

\* lines 172-176: count++ when the two levels differ, count-- otherwise
QuadratureUpdate(c, level_int, level_dir) ==
    IF level_int # level_dir THEN Inc32(c) ELSE Dec32(c)

\* the test of line 166 without the comparison of the bank
IrqIsForDev_nobank(b, i) == MaskBit(i) \in status[b]

\* line 166: the event is for descriptor i of the table
IrqIsForDev(b, i) == IntBank(i) = b /\ MaskBit(i) \in status[b]

\* GPIOBankIntDisable that leaves the bank enabled
GPIOBankIntDisable_noop(enabled, b) == enabled

\* line 156: GPIOBankIntDisable clears the bank's bit of GPIO_BINTEN
GPIOBankIntDisable(enabled, b) == enabled \ {b}

\* line 180: GPIOBankIntEnable sets the bank's bit of GPIO_BINTEN
GPIOBankIntEnable(enabled, b) == enabled \cup {b}

\* the acknowledge writing the whole status snapshot back
IntStatWrite_all(pending, b, i) == pending \ status[b]

\* line 171: INTSTAT = mask; the register clears the bits written as 1,
\* here the one bit of descriptor i
IntStatWrite(pending, b, i) == pending \ {MaskBit(i)}

\* pbdrv_counter_ev3_irq5 / irq6: the AINTC calls the registered handler
irq_entry(b) ==
    /\ hpc[b] = "idle"
    /\ b \in sysPending /\ b \in sysEnabled /\ b \in registered
    /\ hpc' = [hpc EXCEPT ![b] = "l156"]
    /\ UNCHANGED <<hwVars, status, idx, fgVars, histVars, runVars, typeVars, restVars, lastNoDev>>

\* line 156: GPIOBankIntDisable
irq_disable(b) ==
    /\ hpc[b] = "l156"
    /\ binten' = GPIOBankIntDisable(binten, b)
    /\ hpc' = [hpc EXCEPT ![b] = "l157"]
    /\ UNCHANGED <<count, intstat, risTrig, falTrig, sysPending, sysEnabled,
                   registered>>
    /\ UNCHANGED <<status, idx, fgVars, histVars, runVars, typeVars, restVars, lastNoDev>>

\* line 157: read the pending-edge register once; line 159: i = 0
irq_status(b) ==
    /\ hpc[b] = "l157"
    /\ status' = [status EXCEPT ![b] = intstat[IntStatReg(b)]]
    /\ idx' = [idx EXCEPT ![b] = 0]
    /\ hpc' = [hpc EXCEPT ![b] = "l159"]
    /\ UNCHANGED <<hwVars, fgVars, histVars, runVars, typeVars, restVars, lastNoDev>>

\* lines 159-168: the event is not for this descriptor, continue
irq_skip(b) ==
    /\ hpc[b] = "l159"
    /\ idx[b] < ARRAY_SIZE
    /\ ~IrqIsForDev(b, idx[b])
    /\ idx' = [idx EXCEPT ![b] = @ + 1]
    /\ UNCHANGED <<hwVars, hpc, status, fgVars, histVars, runVars, typeVars, restVars, lastNoDev>>

\* lines 159-171: the event is for this descriptor, write its mask to
\* INTSTAT (write 1 to clear: only that bit is cleared)
irq_clear(b) ==
    /\ hpc[b] = "l159"
    /\ idx[b] < ARRAY_SIZE
    /\ IrqIsForDev(b, idx[b])
    /\ intstat' = [intstat EXCEPT ![IntStatReg(b)] = IntStatWrite(@, b, idx[b])]
    /\ hpc' = [hpc EXCEPT ![b] = "l172"]
    /\ UNCHANGED <<count, binten, risTrig, falTrig, sysPending, sysEnabled,
                   registered>>
    /\ UNCHANGED <<status, idx, fgVars, histVars, runVars, typeVars, restVars, lastNoDev>>

\* lines 172-177: sample the interrupt and direction pins, update count
irq_update(b) ==
    /\ hpc[b] = "l172"
    /\ \E level_int \in BOOLEAN, level_dir \in BOOLEAN :
         LET i == idx[b]
             c == QuadratureUpdate(count[i], level_int, level_dir)
         IN /\ count' = [count EXCEPT ![i] = c]
            /\ nDiff' = [nDiff EXCEPT ![i] = IF level_int # level_dir
                                             THEN @ + 1 ELSE @]
            /\ nSame' = [nSame EXCEPT ![i] = IF level_int = level_dir
                                             THEN @ + 1 ELSE @]
            /\ held' = IF fpc # "idle" /\ dev = i THEN held \cup {c} ELSE held
            /\ pinInput' = pbdrv_gpio_input(pinInput, {IntPin(i), DirPin(i)})
    /\ idx' = [idx EXCEPT ![b] = @ + 1]
    /\ hpc' = [hpc EXCEPT ![b] = "l159"]
    /\ UNCHANGED <<intstat, binten, risTrig, falTrig, sysPending, sysEnabled,
                   registered>>
    /\ UNCHANGED <<status, fgVars, count0, rdM, rdR, adcCalls, typeCalls,
                   runVars, typeVars, fnVars, lastNoDev>>
    /\ UNCHANGED <<ipc, ii, channel, gpioFunc, pinOutLow>>

\* line 179: IntSystemStatusClear, after the scan of the whole table
irq_ack(b) ==
    /\ hpc[b] = "l159"
    /\ idx[b] = ARRAY_SIZE
    /\ sysPending' = sysPending \ {b}
    /\ hpc' = [hpc EXCEPT ![b] = "l180"]
    /\ UNCHANGED <<count, intstat, binten, risTrig, falTrig, sysEnabled,
                   registered>>
    /\ UNCHANGED <<status, idx, fgVars, histVars, runVars, typeVars, restVars, lastNoDev>>

\* line 180: GPIOBankIntEnable, and return
irq_enable(b) ==
    /\ hpc[b] = "l180"
    /\ binten' = GPIOBankIntEnable(binten, b)
    /\ hpc' = [hpc EXCEPT ![b] = "idle"]
    /\ UNCHANGED <<count, intstat, risTrig, falTrig, sysPending, sysEnabled,
                   registered>>
    /\ UNCHANGED <<status, idx, fgVars, histVars, runVars, typeVars, restVars, lastNoDev>>

\* ------------------------------------------------------------- foreground

PBIO_SUCCESS == "PBIO_SUCCESS"
PBIO_ERROR_NO_DEV == "PBIO_ERROR_NO_DEV"
PBIO_ERROR_NOT_SUPPORTED == "PBIO_ERROR_NOT_SUPPORTED"

\* degrees in one rotation, and millidegrees in one degree (lines 146-147)
DEG_PER_ROTATION == 360
MDEG_PER_DEG == 1000

\* The handlers run at interrupt priority: the foreground executes only
\* while no handler invocation is in progress.
ForegroundRuns == \A b \in Banks : hpc[b] = "idle"

\* a call can start: pbdrv_counter_init has returned and the caller is
\* between calls
CanCall == ipc = "done" /\ fpc = "idle" /\ ForegroundRuns

\* get_dev with > in place of >= in the range check
pbdrv_counter_get_dev_gt(k) ==
    IF k > ARRAY_SIZE THEN [err |-> PBIO_ERROR_NO_DEV, dev |-> << >>]
                      ELSE [err |-> PBIO_SUCCESS, dev |-> <<k>>]

\* lines 85-91: the error returned, and what is stored to *dev (if anything);
\* &counters[id] is given as the index id
pbdrv_counter_get_dev_result(k) ==
    IF k >= ARRAY_SIZE THEN [err |-> PBIO_ERROR_NO_DEV, dev |-> << >>]
                       ELSE [err |-> PBIO_SUCCESS, dev |-> <<k>>]

\* the fresh frame of a call: no output stored, no helper called
NewCall(o, k, d) ==
    /\ op' = o /\ id' = k /\ dev' = d
    /\ adc' = 0 /\ adc_err' = "none" /\ type_id' = LEGO_DEVICE_TYPE_ID_NONE
    /\ millidegrees' = 0 /\ rotations' = 0
    /\ rdM' = 0 /\ rdR' = 0

\* pbdrv_counter_get_dev, lines 85-91
pbdrv_counter_get_dev(k) ==
    /\ CanCall
    /\ NewCall("get_dev", k, 0)
    /\ LET r == pbdrv_counter_get_dev_result(k)
       IN /\ ret' = r.err
          /\ handle' = IF r.dev = << >> THEN 0 ELSE r.dev[1]
          /\ written' = IF r.dev = << >> THEN {} ELSE {"dev"}
    /\ held' = {} /\ adcCalls' = 0 /\ typeCalls' = 0
    /\ lastNoDev' = << >>
    /\ UNCHANGED <<hwVars, irqVars, fpc, count0, nDiff, nSame, edges, typeVars,
                   restVars>>

\* get_angle returning a fixed error when the analog read fails
get_angle_adc_error_nodev(e) == PBIO_ERROR_NO_DEV

\* lines 137-139: the analog subsystem's error is returned as it is
get_angle_adc_error(e) == e

\* the presence check inverted
get_angle_type_error_inv(t) ==
    IF t # LEGO_DEVICE_TYPE_ID_NONE THEN PBIO_ERROR_NO_DEV ELSE PBIO_SUCCESS

\* lines 142-144: no device when the classifier reports none
get_angle_type_error(t) ==
    IF t = LEGO_DEVICE_TYPE_ID_NONE THEN PBIO_ERROR_NO_DEV ELSE PBIO_SUCCESS

\* a read of the low byte of count only
LoadCount_u8(d) == count[d] % 256

\* the count read as zero on the first query after the device was absent
LoadCount_zeroed(d) == IF lastNoDev # << >> THEN 0 ELSE count[d]

\* dev->count read by the foreground: one aligned 32-bit load
LoadCount(d) == count[d]

\* millidegrees with the floored remainder
AngleMillidegrees_floor(c) == (c % DEG_PER_ROTATION) * MDEG_PER_DEG

\* line 146: (dev->count % 360) * 1000
AngleMillidegrees(c) == CRem(c, DEG_PER_ROTATION) * MDEG_PER_DEG

\* rotations with the floored quotient
AngleRotations_floor(c) == c \div DEG_PER_ROTATION

\* line 147: dev->count / 360
AngleRotations(c) == CDiv(c, DEG_PER_ROTATION)

\* get_angle, lines 135-139: the analog read fails
pbdrv_counter_get_angle_adc_fail(d) ==
    /\ CanCall
    /\ op' = "get_angle" /\ id' = 0 /\ dev' = d
    /\ adc' = 0 /\ type_id' = LEGO_DEVICE_TYPE_ID_NONE
    /\ millidegrees' = 0 /\ rotations' = 0 /\ rdM' = 0 /\ rdR' = 0
    /\ \E e \in AdcErrors :
         /\ adc_err' = e
         /\ ret' = get_angle_adc_error(e)
    /\ adcCalls' = 1 /\ typeCalls' = 0
    /\ written' = {} /\ handle' = 0
    /\ held' = {count[d]}
    /\ lastNoDev' = << >>
    /\ UNCHANGED <<hwVars, irqVars, fpc, count0, nDiff, nSame, edges,
                   typeVars, restVars>>

\* get_angle, lines 135-144: the sample is read and classified
get_angle_classified(d, a) ==
    /\ CanCall
    /\ op' = "get_angle" /\ id' = 0 /\ dev' = d
    /\ millidegrees' = 0 /\ rotations' = 0 /\ rdM' = 0 /\ rdR' = 0
    /\ adc' = a /\ adc_err' = PBIO_SUCCESS
    /\ type_id' = pbdrv_counter_ev3_get_type(a)
    /\ adcCalls' = 1 /\ typeCalls' = 1
    /\ written' = {"type_id"} /\ handle' = 0
    /\ held' = {count[d]}
    /\ UNCHANGED <<hwVars, irqVars, count0, nDiff, nSame, edges, typeVars,
                   restVars>>

\* get_angle, lines 135-144: the sample classifies as no device
pbdrv_counter_get_angle_no_dev(d) ==
    \E a \in AdcSamples :
      /\ get_angle_type_error(pbdrv_counter_ev3_get_type(a)) # PBIO_SUCCESS
      /\ get_angle_classified(d, a)
      /\ ret' = get_angle_type_error(pbdrv_counter_ev3_get_type(a))
      /\ fpc' = "idle"
      /\ lastNoDev' = <<d, nDiff[d] + nSame[d]>>

\* get_angle, lines 135-144: a device is detected, go on to line 146
pbdrv_counter_get_angle_detect(d) ==
    \E a \in AdcSamples :
      /\ get_angle_type_error(pbdrv_counter_ev3_get_type(a)) = PBIO_SUCCESS
      /\ get_angle_classified(d, a)
      /\ ret' = "running"
      /\ fpc' = "l146"
      /\ lastNoDev' = IF lastNoDev # << >> /\ lastNoDev[1] = d
                      THEN lastNoDev ELSE << >>

\* get_angle, line 146: *millidegrees = (dev->count % 360) * 1000
pbdrv_counter_get_angle_mdeg ==
    /\ fpc = "l146" /\ ForegroundRuns
    /\ rdM' = LoadCount(dev)
    /\ millidegrees' = AngleMillidegrees(rdM')
    /\ written' = written \cup {"millidegrees"}
    /\ fpc' = "l147"
    /\ UNCHANGED <<hwVars, irqVars, op, id, dev, ret, adc, adc_err, type_id,
                   rotations, handle>>
    /\ UNCHANGED <<count0, nDiff, nSame, rdR, held, adcCalls, typeCalls,
                   runVars, typeVars, restVars, lastNoDev>>

\* get_angle, lines 147-148: *rotations = dev->count / 360, return success
pbdrv_counter_get_angle_rot ==
    /\ fpc = "l147" /\ ForegroundRuns
    /\ rdR' = LoadCount(dev)
    /\ rotations' = AngleRotations(rdR')
    /\ written' = written \cup {"rotations"}
    /\ ret' = PBIO_SUCCESS
    /\ fpc' = "idle"
    /\ UNCHANGED <<hwVars, irqVars, op, id, dev, adc, adc_err, type_id,
                   millidegrees, handle>>
    /\ UNCHANGED <<count0, nDiff, nSame, rdM, held, adcCalls, typeCalls,
                   runVars, typeVars, restVars, lastNoDev>>

\* get_abs_angle returning success
pbdrv_counter_get_abs_angle_ok == PBIO_SUCCESS

\* line 152: the value pbdrv_counter_get_abs_angle returns
pbdrv_counter_get_abs_angle_result == PBIO_ERROR_NOT_SUPPORTED

\* pbdrv_counter_get_abs_angle, lines 151-153
pbdrv_counter_get_abs_angle(d) ==
    /\ CanCall
    /\ NewCall("get_abs_angle", 0, d)
    /\ ret' = pbdrv_counter_get_abs_angle_result
    /\ written' = {} /\ handle' = 0
    /\ held' = {} /\ adcCalls' = 0 /\ typeCalls' = 0
    /\ lastNoDev' = << >>
    /\ UNCHANGED <<hwVars, irqVars, fpc, count0, nDiff, nSame, edges,
                   typeVars, restVars>>

\* ------------------------------------------------------ pbdrv_counter_init

\* what a step of pbdrv_counter_init leaves alone besides the registers
\* and pins it names
InitFrame ==
    UNCHANGED <<count, intstat, sysPending, irqVars, fgVars, histVars,
                runVars, typeVars, fnVars, lastNoDev>>

\* lines 193-201: one iteration of the loop over the descriptors
init_pins ==
    /\ ipc = "l193" /\ ii < ARRAY_SIZE /\ ForegroundRuns
    /\ gpioFunc' = pbdrv_gpio_alt_gpio(gpioFunc, InitAltGpioPins(ii))
    /\ pinInput' = pbdrv_gpio_input(pinInput, InitInputPins(ii))
    /\ pinOutLow' = pbdrv_gpio_out_low(pinOutLow, InitOutLowPins(ii))
    /\ ii' = ii + 1
    /\ ipc' = IF ii + 1 < ARRAY_SIZE THEN "l193" ELSE "l204"
    /\ UNCHANGED <<binten, risTrig, falTrig, sysEnabled, registered, channel>>
    /\ InitFrame

\* lines 204-205: IntRegister for the two bank interrupts
init_register ==
    /\ ipc = "l204" /\ ForegroundRuns
    /\ registered' = registered \cup Banks
    /\ ipc' = "l206"
    /\ UNCHANGED <<binten, risTrig, falTrig, sysEnabled, channel, ii,
                   gpioFunc, pinInput, pinOutLow>>
    /\ InitFrame

\* lines 206-207: IntChannelSet(..., 0) for the two bank interrupts
init_channel ==
    /\ ipc = "l206" /\ ForegroundRuns
    /\ channel' = [b \in Banks |-> 0]
    /\ ipc' = "l208"
    /\ UNCHANGED <<binten, risTrig, falTrig, sysEnabled, registered, ii,
                   gpioFunc, pinInput, pinOutLow>>
    /\ InitFrame

\* lines 208-209: IntSystemEnable for the two bank interrupts
init_sys_enable ==
    /\ ipc = "l208" /\ ForegroundRuns
    /\ sysEnabled' = sysEnabled \cup Banks
    /\ ipc' = "l212"
    /\ UNCHANGED <<binten, risTrig, falTrig, registered, channel, ii,
                   gpioFunc, pinInput, pinOutLow>>
    /\ InitFrame

\* line 212: GPIO_BINTEN |= 0x60
init_binten ==
    /\ ipc = "l212" /\ ForegroundRuns
    /\ binten' = binten \cup BitsOf(BINTEN_BANK56)
    /\ ipc' = "l214"
    /\ UNCHANGED <<risTrig, falTrig, sysEnabled, registered, channel, ii,
                   gpioFunc, pinInput, pinOutLow>>
    /\ InitFrame

\* line 214: GPIO_SET_RIS_TRIG(2) |= 0x29000000
init_ris5 ==
    /\ ipc = "l214" /\ ForegroundRuns
    /\ risTrig' = [risTrig EXCEPT ![IntStatReg(5)] = @ \cup BitsOf(TRIG_BANK5)]
    /\ ipc' = "l215"
    /\ UNCHANGED <<binten, falTrig, sysEnabled, registered, channel, ii,
                   gpioFunc, pinInput, pinOutLow>>
    /\ InitFrame

\* line 215: GPIO_SET_FAL_TRIG(2) |= 0x29000000
init_fal5 ==
    /\ ipc = "l215" /\ ForegroundRuns
    /\ falTrig' = [falTrig EXCEPT ![IntStatReg(5)] = @ \cup BitsOf(TRIG_BANK5)]
    /\ ipc' = "l217"
    /\ UNCHANGED <<binten, risTrig, sysEnabled, registered, channel, ii,
                   gpioFunc, pinInput, pinOutLow>>
    /\ InitFrame

\* line 217: GPIO_SET_RIS_TRIG(3) |= 0x200
init_ris6 ==
    /\ ipc = "l217" /\ ForegroundRuns
    /\ risTrig' = [risTrig EXCEPT ![IntStatReg(6)] = @ \cup BitsOf(TRIG_BANK6)]
    /\ ipc' = "l218"
    /\ UNCHANGED <<binten, falTrig, sysEnabled, registered, channel, ii,
                   gpioFunc, pinInput, pinOutLow>>
    /\ InitFrame

\* line 218: GPIO_SET_FAL_TRIG(3) |= 0x200, and return
init_fal6 ==
    /\ ipc = "l218" /\ ForegroundRuns
    /\ falTrig' = [falTrig EXCEPT ![IntStatReg(6)] = @ \cup BitsOf(TRIG_BANK6)]
    /\ ipc' = "done"
    /\ UNCHANGED <<binten, risTrig, sysEnabled, registered, channel, ii,
                   gpioFunc, pinInput, pinOutLow>>
    /\ InitFrame

\* ------------------------------------------------------------------ Spec

Next ==
    \/ \E i \in Dev : EdgeEvent(i)
    \/ \E b \in Banks : irq_entry(b)
    \/ \E b \in Banks : irq_disable(b)
    \/ \E b \in Banks : irq_status(b)
    \/ \E b \in Banks : irq_skip(b)
    \/ \E b \in Banks : irq_clear(b)
    \/ \E b \in Banks : irq_update(b)
    \/ \E b \in Banks : irq_ack(b)
    \/ \E b \in Banks : irq_enable(b)
    \/ \E k \in 0..MaxId : pbdrv_counter_get_dev(k)
    \/ \E d \in Dev : pbdrv_counter_get_angle_adc_fail(d)
    \/ \E d \in Dev : pbdrv_counter_get_angle_no_dev(d)
    \/ \E d \in Dev : pbdrv_counter_get_angle_detect(d)
    \/ pbdrv_counter_get_angle_mdeg
    \/ pbdrv_counter_get_angle_rot
    \/ \E d \in Dev : pbdrv_counter_get_abs_angle(d)

Spec == Init /\ [][Next]_vars

\* --------------------------------------------- the driver from power-up

\* before pbdrv_counter_init: the static table with count zero, the
\* interrupt controller and the GPIO registers at their reset values, no
\* pin configured, no interrupt routed
Unconfigured ==
    /\ binten = {}
    /\ risTrig = [r \in Regs |-> {}] /\ falTrig = [r \in Regs |-> {}]
    /\ sysEnabled = {} /\ registered = {}
    /\ channel = [b \in Banks |-> -1]
    /\ gpioFunc = {} /\ pinInput = {} /\ pinOutLow = {}
    /\ ipc = "l193" /\ ii = 0

InitBoot ==
    /\ count0 = [i \in Dev |-> 0]
    /\ count = count0
    /\ Unconfigured /\ Quiet /\ TypeIdle /\ AngleIdle /\ SinIdle

\* a step of pbdrv_counter_init
InitStep ==
    \/ init_pins
    \/ init_register
    \/ init_channel
    \/ init_sys_enable
    \/ init_binten
    \/ init_ris5
    \/ init_fal5
    \/ init_ris6
    \/ init_fal6

NextBoot == InitStep \/ Next

SpecBoot == InitBoot /\ [][NextBoot]_vars

\* ------------------------------------- the banks shared with other pins

\* pending-edge bits that belong to no descriptor: pin 0 of bank 5 (its
\* bit is in the register the bank-5 handler reads) and pin 11 of bank 7
\* (in the register the bank-6 handler reads, at the bit position that
\* descriptor 0's mask has in the other register)
ForeignPins == {<<5, 0>>, <<7, 11>>}

\* the bit of pin p of bank b in its INTSTAT register
PinBit(b, p) == (b * 16 + p) % 32

\* An edge on a pin of another driver whose trigger that driver enabled:
\* latched in INTSTAT, raising the bank's system interrupt when the bank
\* is one of ours and enabled in BINTEN.
ForeignEdge(b, p) ==
    /\ edges < MaxEdges
    /\ PinBit(b, p) \notin intstat[IntStatReg(b)]
    /\ intstat' = [intstat EXCEPT ![IntStatReg(b)] = @ \cup {PinBit(b, p)}]
    /\ sysPending' = IF b \in Banks /\ b \in binten
                      THEN sysPending \cup {b} ELSE sysPending
    /\ edges' = edges + 1
    /\ UNCHANGED <<count, binten, risTrig, falTrig, sysEnabled, registered>>
    /\ UNCHANGED <<irqVars, fgVars, histVars, typeVars, restVars, lastNoDev>>

NextShared ==
    \/ \E f \in ForeignPins : ForeignEdge(f[1], f[2])
    \/ Next

SpecShared == Init /\ [][NextShared]_vars

\* ---------------------------------------------- classifier as a function

\* every value of the classifier's uint16_t parameter
InitType ==
    /\ t_adc \in 0..UINT16_MAX
    /\ t_type = LEGO_DEVICE_TYPE_ID_NONE /\ t_done = FALSE
    /\ count0 \in StartTables /\ count = count0
    /\ Configured /\ Quiet /\ AngleIdle /\ SinIdle

\* one call of pbdrv_counter_ev3_get_type on the sample
ClassifySample ==
    /\ ~t_done
    /\ t_type' = pbdrv_counter_ev3_get_type(t_adc)
    /\ t_done' = TRUE
    /\ UNCHANGED <<t_adc, hwVars, irqVars, fgVars, histVars, runVars, restVars,
                   lastNoDev>>

NextType == ClassifySample

SpecType == InitType /\ [][NextType]_vars

\* ----------------------------------------- angle conversion as a function

\* the values within n of zero and of the two ends of the int32_t range
Int32Samples(n) ==
    (-n .. n) \cup {INT32_MIN + k : k \in 0..n} \cup {INT32_MAX - k : k \in 0..n}

\* counts the int32_t field can hold
InitAngle ==
    /\ a_count \in Int32Samples(MaxCount)
    /\ a_rotations = 0 /\ a_millidegrees = 0 /\ a_done = FALSE
    /\ count0 \in StartTables /\ count = count0
    /\ Configured /\ Quiet /\ TypeIdle /\ SinIdle

\* lines 146-147 of pbdrv_counter_get_angle on the count
ConvertCount ==
    /\ ~a_done
    /\ a_millidegrees' = AngleMillidegrees(a_count)
    /\ a_rotations' = AngleRotations(a_count)
    /\ a_done' = TRUE
    /\ UNCHANGED <<a_count, s_x, s_sin, s_cos, s_done, initVars>>
    /\ UNCHANGED <<hwVars, irqVars, fgVars, histVars, runVars, typeVars,
                   lastNoDev>>

NextAngle == ConvertCount

SpecAngle == InitAngle /\ [][NextAngle]_vars

\* ------------------------------------------------- sine of the tilt sensor

\* sin_deg_branch0: the approximation on 0..90 degrees
sin_deg_branch0(x) == (201 - x) * x

\* sin_deg: the remainder of x by 360 (C's %, of the sign of x), then the
\* quadrant by comparison with 90, 180 and 270
sin_deg(x) ==
    LET r == CRem(x, 360)
    IN IF r < 90 THEN sin_deg_branch0(r)
       ELSE IF r < 180 THEN sin_deg_branch0(180 - r)
       ELSE IF r < 270 THEN -sin_deg_branch0(r - 180)
       ELSE -sin_deg_branch0(360 - r)

\* x + 90 in cos_deg: the sum when it fits int32_t; a signed overflow is
\* undefined, of which the builds produce the wrapped or the clamped sum
CosArgument(x) ==
    IF x <= INT32_MAX - 90 THEN {x + 90}
    ELSE {INT32_MIN + (x - (INT32_MAX - 90)) - 1, INT32_MAX}

\* cos_deg: sin_deg(x + 90)
cos_deg(x) == {sin_deg(y) : y \in CosArgument(x)}

\* degrees of the int type
InitSin ==
    /\ s_x \in Int32Samples(MaxDeg)
    /\ s_sin = 0 /\ s_cos = 0 /\ s_done = FALSE
    /\ count0 \in StartTables /\ count = count0
    /\ Configured /\ Quiet /\ TypeIdle /\ AngleIdle

\* one call of sin_deg and of cos_deg on the degrees
ApplySin ==
    /\ ~s_done
    /\ s_sin' = sin_deg(s_x)
    /\ s_cos' \in cos_deg(s_x)
    /\ s_done' = TRUE
    /\ UNCHANGED <<s_x, a_count, a_rotations, a_millidegrees, a_done, initVars>>
    /\ UNCHANGED <<hwVars, irqVars, fgVars, histVars, runVars, typeVars,
                   lastNoDev>>

NextSin == ApplySin

SpecSin == InitSin /\ [][NextSin]_vars

\* ------------------------------------------------------------ properties

\* a get_angle call has returned success
AngleReturned ==
    op = "get_angle" /\ fpc = "idle" /\ ret = PBIO_SUCCESS

\* the foreground call record (arguments, return value, outputs)
callRecord == <<op, id, dev, ret, adc, adc_err, type_id, millidegrees,
                rotations, handle, written>>

\* C1: each descriptor's count equals its starting value plus the number
\* of handled edge events at which the interrupt pin and direction pin
\* levels differed, minus the number at which they matched (so every
\* event moves count by exactly +1 or -1, in any order of events).
C1_QuadratureCount ==
    \A i \in Dev : count[i] = count0[i] + nDiff[i] - nSame[i]

\* C1 witness: one descriptor has handled one differing and one matching
\* event and is back at its starting value
C1_Witness ==
    \E i \in Dev : nDiff[i] = 1 /\ nSame[i] = 1 /\ count[i] = count0[i]

C3_SingleValuePair ==
    AngleReturned =>
        \E c \in held : /\ rotations = CDiv(c, DEG_PER_ROTATION)
                        /\ millidegrees = CRem(c, DEG_PER_ROTATION) * MDEG_PER_DEG

\* q is c / 360 truncated toward zero, stated without the division
IsTruncatedQuotient(c, q) ==
    \E r \in -359..359 : /\ c = 360 * q + r
                         /\ (c >= 0 => r >= 0)
                         /\ (c <= 0 => r <= 0)

\* m is (c mod 360) * 1000 with the remainder taking the sign of c
IsTruncatedMillidegrees(c, m) ==
    \E r \in -359..359 : /\ m = 1000 * r
                         /\ (c - r) % 360 = 0
                         /\ (c >= 0 => r >= 0)
                         /\ (c <= 0 => r <= 0)

\* C4: a successful get_angle returns rotations = count / 360 and
\* millidegrees = (count mod 360) * 1000 of the count value it read, with
\* division and remainder truncating toward zero for both signs:
\* 725 gives 2 and 5000, -725 gives -2 and -5000.
C4_AngleConversion ==
    AngleReturned =>
        /\ type_id # LEGO_DEVICE_TYPE_ID_NONE
        /\ IsTruncatedQuotient(rdR, rotations)
        /\ IsTruncatedMillidegrees(rdM, millidegrees)
        /\ (rdR = 725 => rotations = 2)
        /\ (rdM = 725 => millidegrees = 5000)
        /\ (rdR = -725 => rotations = -2)
        /\ (rdM = -725 => millidegrees = -5000)

\* C4 witness: a call on a descriptor at -725 returned -2 and -5000
C4_Witness ==
    /\ AngleReturned /\ held = {-725}
    /\ rotations = -2 /\ millidegrees = -5000

\* C5: get_dev(id) returns NO_DEV and stores no handle for every id at or
\* beyond the table size; for every valid id it succeeds with the handle
\* of descriptor id, the same in every reachable state (so on every
\* repeated call); and the call changes no driver state.
C5_GetDev ==
    /\ [](op = "get_dev" =>
            /\ (id >= 4 => ret = PBIO_ERROR_NO_DEV /\ "dev" \notin written)
            /\ (id < 4 => /\ ret = PBIO_SUCCESS /\ "dev" \in written
                          /\ handle = id /\ handle \in DOMAIN count))
    /\ [][(op' = "get_dev" /\ callRecord' # callRecord)
            => UNCHANGED <<hwVars, irqVars>>]_vars

\* C5 witness: get_dev was called with the first id beyond the table,
\* after edges had been counted
C5_Witness ==
    /\ op = "get_dev" /\ id = 4 /\ ret = PBIO_ERROR_NO_DEV
    /\ \E i \in Dev : count[i] # count0[i]

\* C6: when the sample read by get_angle classifies as none, get_angle
\* returns NO_DEV whatever count is, stores neither rotations nor
\* millidegrees, and leaves count unchanged.
C6_NoneIsNoDev ==
    /\ [](op = "get_angle" /\ typeCalls = 1
            /\ type_id = LEGO_DEVICE_TYPE_ID_NONE =>
               /\ ret = PBIO_ERROR_NO_DEV /\ fpc = "idle"
               /\ "rotations" \notin written
               /\ "millidegrees" \notin written)
    /\ [][(op' = "get_angle" /\ ret' = PBIO_ERROR_NO_DEV
            /\ callRecord' # callRecord) => count' = count]_vars

\* C6 witness: NO_DEV returned for a descriptor whose count is not zero
C6_Witness ==
    /\ op = "get_angle" /\ ret = PBIO_ERROR_NO_DEV
    /\ type_id = LEGO_DEVICE_TYPE_ID_NONE /\ count[dev] # 0

\* C7: when the analog read fails, get_angle returns exactly the error
\* the analog subsystem reported, after one read attempt, without
\* classifying, storing no output, and leaving count unchanged.
C7_AdcErrorPropagated ==
    /\ [](op = "get_angle" /\ adc_err \in AdcErrors =>
               /\ ret = adc_err /\ fpc = "idle"
               /\ adcCalls = 1 /\ typeCalls = 0
               /\ written = {})
    /\ [][(op' = "get_angle" /\ adc_err' \in AdcErrors
            /\ callRecord' # callRecord) => count' = count]_vars

\* C7 witness: the analog read failed on a descriptor with a nonzero count
C7_Witness ==
    /\ op = "get_angle" /\ adc_err = "PBIO_ERROR_FAILED"
    /\ ret = "PBIO_ERROR_FAILED" /\ count[dev] # 0

\* C8: get_abs_angle returns NOT_SUPPORTED for every handle in every
\* driver state, stores no output and changes no driver state.
C8_AbsAngleNotSupported ==
    /\ [](op = "get_abs_angle" =>
            ret = PBIO_ERROR_NOT_SUPPORTED /\ written = {})
    /\ [][(op' = "get_abs_angle" /\ callRecord' # callRecord)
            => UNCHANGED <<hwVars, irqVars>>]_vars

\* C8 witness: get_abs_angle was called on a descriptor whose count the
\* handler had changed
C8_Witness ==
    /\ op = "get_abs_angle" /\ ret = PBIO_ERROR_NOT_SUPPORTED
    /\ count[dev] # count0[dev]

\* C9 as stated: a sample exactly at a midpoint classifies to the variant
\* returned above the midpoint (medium below the absent value, large above
\* it), and a sample one unit below to the other variant.
C9_MidpointHighSide ==
    t_done =>
        /\ (t_adc = ADC_EV3_THRESHOLD_LOW
              => t_type = LEGO_DEVICE_TYPE_ID_EV3_MEDIUM_MOTOR)
        /\ (t_adc = ADC_EV3_THRESHOLD_LOW - 1
              => t_type = LEGO_DEVICE_TYPE_ID_EV3_LARGE_MOTOR)
        /\ (t_adc = ADC_EV3_THRESHOLD_HIGH
              => t_type = LEGO_DEVICE_TYPE_ID_EV3_LARGE_MOTOR)
        /\ (t_adc = ADC_EV3_THRESHOLD_HIGH - 1
              => t_type = LEGO_DEVICE_TYPE_ID_EV3_MEDIUM_MOTOR)

\* C9 amended: the midpoints are 205 and 3558; a sample exactly at a
\* midpoint classifies to the low-side variant, like a sample one unit
\* below it (large below the absent value, medium above it), and a sample
\* one unit above the midpoint classifies to the high-side variant.
C9_MidpointLowSide ==
    /\ ADC_EV3_THRESHOLD_LOW = 205 /\ ADC_EV3_THRESHOLD_HIGH = 3558
    /\ t_done =>
        /\ (t_adc \in {204, 205} => t_type = LEGO_DEVICE_TYPE_ID_EV3_LARGE_MOTOR)
        /\ (t_adc = 206 => t_type = LEGO_DEVICE_TYPE_ID_EV3_MEDIUM_MOTOR)
        /\ (t_adc \in {3557, 3558}
              => t_type = LEGO_DEVICE_TYPE_ID_EV3_MEDIUM_MOTOR)
        /\ (t_adc = 3559 => t_type = LEGO_DEVICE_TYPE_ID_EV3_LARGE_MOTOR)

\* C9 witness: the sample at the low midpoint has been classified
C9_Witness ==
    t_done /\ t_adc = 205 /\ t_type = LEGO_DEVICE_TYPE_ID_EV3_LARGE_MOTOR

\* C10: the classifier returns none for 2014 and for every sample whose
\* absolute difference from 2014 is at most 750 (1264..2764), and a motor
\* type for every other sample.
C10_AbsentBand ==
    t_done =>
        /\ (t_adc \in 1264..2764 => t_type = LEGO_DEVICE_TYPE_ID_NONE)
        /\ (t_adc \notin 1264..2764 =>
              t_type \in {LEGO_DEVICE_TYPE_ID_EV3_MEDIUM_MOTOR,
                          LEGO_DEVICE_TYPE_ID_EV3_LARGE_MOTOR})

\* C10 witness: the nominal absent sample has been classified as none
C10_Witness ==
    t_done /\ t_adc = 2014 /\ t_type = LEGO_DEVICE_TYPE_ID_NONE

\* ------------------------------------------------- properties, continued

\* handler b is at the count update of lines 172-176
AtUpdate(b) == hpc[b] = "l172"

\* this step is the count update of handler b for descriptor i
UpdateStep(b, i) ==
    /\ AtUpdate(b) /\ idx[b] = i /\ hpc'[b] = "l159"
    /\ count'[i] \in {count[i] + 1, count[i] - 1}
    /\ \A j \in Dev \ {i} : count'[j] = count[j]

\* this step belongs to the foreground: a call, a step of get_angle or a
\* step of pbdrv_counter_init
ForegroundStep == callRecord' # callRecord \/ fpc' # fpc \/ ipc' # ipc

\* C11: the only operation that changes any descriptor's count is the
\* interrupt handler, at its count update, and each change moves exactly
\* one count by exactly +1 or -1; no step of get_dev, get_angle (in any
\* outcome), get_abs_angle or init changes count.
C11_OnlyHandlerWrites ==
    [][ /\ count' # count => \E b \in Banks, i \in Dev : UpdateStep(b, i)
        /\ ForegroundStep => count' = count ]_vars

\* init has run, the handler has counted, and a get_angle has returned
\* NoDevice since
C11_Witness ==
    /\ ipc = "done" /\ count # count0
    /\ op = "get_angle" /\ fpc = "idle" /\ ret = PBIO_ERROR_NO_DEV

\* handler b is between its bank-interrupt disable and re-enable
BankMasked(b) == hpc[b] \in {"l157", "l159", "l172", "l180"}

AfterAbsence == lastNoDev # << >> /\ lastNoDev[1] = dev

\* the count descriptor d has accumulated: start value and every edge
Accumulated(d) == count0[d] + nDiff[d] - nSame[d]

\* C13: the counter keeps accumulating across absence: after get_angle
\* returned NoDevice, every edge handled still moves count by +1 or -1,
\* and the reads of a later get_angle on that descriptor that detects a
\* device take the full accumulated count (start value and all edges
\* handled, those handled during the absence included) and report its
\* millidegrees and rotations, never a reset or zeroed value.
C13_AccumulatesAcrossAbsence ==
    [][ /\ (ret = PBIO_ERROR_NO_DEV /\ count' # count)
            => \E b \in Banks, i \in Dev : UpdateStep(b, i)
        /\ (AfterAbsence /\ fpc = "l146" /\ fpc' = "l147")
            => /\ rdM' = Accumulated(dev)
               /\ millidegrees' = AngleMillidegrees(Accumulated(dev))
        /\ (AfterAbsence /\ fpc = "l147" /\ fpc' = "idle")
            => /\ rdR' = Accumulated(dev)
               /\ rotations' = AngleRotations(Accumulated(dev))
               /\ ret' = PBIO_SUCCESS ]_vars

\* a get_angle after an absence has reported a count that moved while the
\* device was perceived absent
C13_Witness ==
    /\ AngleReturned /\ AfterAbsence
    /\ nDiff[dev] + nSame[dev] > lastNoDev[2]
    /\ rdM = rdR /\ rdM # count0[dev]
    /\ millidegrees = AngleMillidegrees(rdM)
    /\ rotations = AngleRotations(rdR)


\* descriptor i's pins are configured: interrupt and direction pin in GPIO
\* function and digital inputs, detect pin an output driven low
PinsConfigured(i) ==
    /\ {IntPin(i), DirPin(i)} \subseteq gpioFunc
    /\ {IntPin(i), DirPin(i)} \subseteq pinInput
    /\ DetPin(i) \in pinOutLow

\* interrupts are set up in some part: a handler registered, system-level
\* delivery enabled, the bank-interrupt-enable or a trigger register
\* programmed, or a handler invoked
InterruptsTouched ==
    \/ registered # {} \/ sysEnabled # {} \/ binten # {}
    \/ \E r \in Regs : risTrig[r] # {} \/ falTrig[r] # {}
    \/ \E b \in Banks : hpc[b] # "idle"

\* C14: in init, every descriptor's interrupt and direction pin are
\* switched to GPIO function and made digital inputs and its detect pin an
\* output driven low, all before any handler is registered, system-level
\* delivery is enabled, the bank-interrupt-enable or a trigger register is
\* programmed or a handler runs.
C14_PinsBeforeInterrupts ==
    InterruptsTouched => \A i \in Dev : PinsConfigured(i)

\* the part of C14 that is about order alone: the loop over the
\* descriptors has finished before interrupts are set up in any part
C14_LoopBeforeInterrupts ==
    InterruptsTouched => ipc # "l193" /\ ii = ARRAY_SIZE

\* this step clears bit k of pending-edge register r
ClearsBit(r, k) == k \in intstat[r] /\ k \notin intstat'[r]

\* this step is the acknowledge of line 171 by handler b for a descriptor
\* of its bank whose bit is in its snapshot
ClearStep(b) ==
    /\ hpc[b] = "l159" /\ hpc'[b] = "l172"
    /\ idx[b] \in Dev /\ IntBank(idx[b]) = b
    /\ MaskBit(idx[b]) \in status[b]

\* C15: in an invocation for bank B with snapshot S, read once, a count
\* changes and a pending bit is cleared only for a descriptor whose
\* interrupt pin is in bank B and whose bit is set in S: every other
\* count is unchanged and every other pending bit (another pin of the
\* bank, a pin of the bank sharing the register, a bit set after the
\* snapshot) stays set.
C15_OnlyMatchingDescriptors ==
    [][ /\ \A r \in Regs : \A k \in intstat[r] :
             ClearsBit(r, k) =>
                \E b \in Banks : /\ ClearStep(b) /\ IntStatReg(b) = r
                                 /\ k = MaskBit(idx[b])
        /\ \A i \in Dev :
             count'[i] # count[i] =>
                /\ UpdateStep(IntBank(i), i)
                /\ MaskBit(i) \in status[IntBank(i)]
        /\ \A b \in Banks :
             status'[b] # status[b] => hpc[b] = "l157" ]_vars

\* the bank-5 handler has cleared the bit of a descriptor and is at its
\* count update while the bit of a pin that is not a descriptor's, which
\* was in its snapshot, is still set
C15_Witness ==
    /\ AtUpdate(5)
    /\ PinBit(5, 0) \in status[5] /\ PinBit(5, 0) \in intstat[IntStatReg(5)]
    /\ MaskBit(idx[5]) \notin intstat[IntStatReg(5)]

\* C16: a handler invocation disables its bank's interrupt delivery
\* first, reads the pending-edge register once, scans every descriptor,
\* then acknowledges the system interrupt and re-enables the bank's
\* delivery last: the bank is disabled from the disable to the re-enable
\* (so at every count update), the snapshot is taken only right after the
\* disable, the acknowledge comes only after the whole table is scanned,
\* and the invocation returns only through the re-enable, on every path.
C16_HandlerOrder ==
    /\ [](\A b \in Banks : BankMasked(b) => b \notin binten)
    /\ [][\A b \in Banks :
            /\ (hpc[b] = "idle" /\ hpc'[b] # "idle") => hpc'[b] = "l156"
            /\ (hpc[b] = "l156" /\ hpc'[b] # "l156")
                  => hpc'[b] = "l157" /\ b \notin binten'
            /\ status'[b] # status[b]
                  => hpc[b] = "l157" /\ hpc'[b] = "l159" /\ b \notin binten
            /\ count' # count /\ AtUpdate(b) /\ ~AtUpdate(b)'
                  => b \notin binten
            /\ (b \in sysPending /\ b \notin sysPending')
                  => /\ hpc[b] = "l159" /\ idx[b] = ARRAY_SIZE
                     /\ hpc'[b] = "l180"
            /\ (hpc[b] # "idle" /\ hpc'[b] = "idle")
                  => hpc[b] = "l180" /\ b \in binten' ]_vars

\* the bank-5 handler has scanned the whole table without a match (its
\* snapshot held only the bit of a pin that is not a descriptor's), has
\* acknowledged the system interrupt and is about to re-enable the bank
C16_Witness ==
    /\ hpc[5] = "l180" /\ 5 \notin binten /\ 5 \notin sysPending
    /\ status[5] = {PinBit(5, 0)}
    /\ count = count0

\* C17: no edge stays pending: a pending bit of a monitored pin always
\* has its handler running or its system interrupt raised, so that the
\* handler, run whenever its system interrupt is raised, comes to clear
\* the bit and count the edge.
C17_NoStrandedEdge ==
    \A i \in Dev :
        MaskBit(i) \in intstat[IntStatReg(IntBank(i))]
            => IntBank(i) \in sysPending \/ hpc[IntBank(i)] # "idle"

\* the masks the handler computes for the descriptors whose pending bits
\* are in register r
HandlerMasks(r) == {MaskBit(i) : i \in {j \in Dev : IntStatReg(IntBank(j)) = r}}

\* C18: after init the rising-edge and the falling-edge trigger masks
\* (0x29000000 for bank 5, 0x200 for bank 6) are equal and are exactly the
\* masks the handler computes for the descriptors' interrupt pins, and
\* every descriptor's interrupt pin is in bank 5 or 6, the banks whose
\* handlers are registered and enabled.
C18_TriggersMatchTable ==
    ipc = "done" =>
        /\ \A r \in Regs : risTrig[r] = HandlerMasks(r) /\ falTrig[r] = risTrig[r]
        /\ risTrig[IntStatReg(5)] = BitsOf(TRIG_BANK5)
        /\ risTrig[IntStatReg(6)] = BitsOf(TRIG_BANK6)
        /\ \A i \in Dev : /\ IntBank(i) \in {5, 6}
                          /\ IntBank(i) \in registered \cap sysEnabled

\* init has returned and an edge on a monitored pin of each bank has been
\* counted
C18_Witness ==
    /\ ipc = "done"
    /\ \E i, j \in Dev : /\ IntBank(i) = 5 /\ IntBank(j) = 6
                         /\ count[i] # count0[i] /\ count[j] # count0[j]


\* C19: for every count of the 32-bit signed range the outputs of a
\* successful get_angle reconstruct the count: rotations * 360000 +
\* millidegrees = count * 1000, with millidegrees a multiple of 1000
\* strictly between -360000 and 360000 and never of the sign opposite to
\* count's.  (Stated on the degrees m = millidegrees / 1000, as
\* rotations = (count - m) / 360 exactly, so that no intermediate value
\* leaves the 32-bit range.)
C19_Reconstruct ==
    a_done =>
        \E m \in -359..359 :
            /\ a_millidegrees = m * 1000
            /\ ~(m > 0 /\ a_count < 0)
            /\ ~(m < 0 /\ a_count > 0)
            /\ (a_count - m) % 360 = 0
            /\ a_rotations = (a_count - m) \div 360

\* the conversion has been applied to the most negative count
C19_Witness ==
    /\ a_done /\ a_count = INT32_MIN
    /\ a_rotations = -5965232 /\ a_millidegrees = -128000

\* C20: for every 32-bit degree x, negative x and x of 360 or more
\* included, sin_deg(x) and cos_deg(x) = sin_deg(x + 90) lie within
\* -10000..10000.
C20_SineRange ==
    s_done => s_sin \in -10000..10000 /\ s_cos \in -10000..10000


====
